---- MODULE Spec2Model ----
(***************************************************************************)
(* A model of the relay of mev-rs (mev-relay-rs/src/relay.rs): the payload *)
(* cache keyed by the bid request, the three operations of the             *)
(* BlindedBlockProvider (register_validators, fetch_best_bid, open_bid)    *)
(* and the slot hook on_slot, run by concurrent request handlers and one   *)
(* slot clock that share the cache behind one mutex; and of the order      *)
(* helpers of the builder (mev-build-rs/src/greedy.rs): profit,            *)
(* cut_off_price and is_order_in_price_range on 128-bit prices.            *)
(***************************************************************************)
EXTENDS Integers, FiniteSets, Sequences, TLC

(* ------------------------------ bounds --------------------------------- *)

\* number of operations (calls) started in one behaviour
MaxCalls == 3

\* the longest slice of registrations handed to one register_validators
MaxRegistrations == 2

\* the longest pool of transactions handed to the selection of orders
MaxPool == 3

(* ------------------------- program constants --------------------------- *)

PROPOSAL_TOLERANCE_DELAY == 1

(* ------------------------------ domains -------------------------------- *)

\* the tasks that serve requests concurrently, and the task that drives
\* initialize and on_slot
Handlers == {"handler1", "handler2"}
Clock == "clock"
Procs == Handlers \cup {Clock}
\* the value of the mutex when no task holds it
Free == "free"

\* BLS public keys; the validator index of key k is k
PubKeys == {1, 2}
\* 32-byte hashes (parent hashes, block hashes)
Hashes == {1, 2}
GasLimits == {1, 2}
\* the variants of ExecutionPayload and ExecutionPayloadHeader
Forks == {"Bellatrix", "Capella", "Deneb"}

\* the chain configurations a relay is constructed with
Contexts ==
    { [bellatrix_fork_epoch |-> 1, capella_fork_epoch |-> 2,
       slots_per_epoch |-> 32, terminal_block_hash |-> 1] }

\* the slots of requests and blocks, around the slot e the relay expects: e - 2
\* is too early, e - 1 is the earliest timely slot
SlotsOf(ctx) ==
    LET e == 32 + ctx.bellatrix_fork_epoch * ctx.slots_per_epoch
    IN  (e - 2)..e

\* the slot of the clock's ticks within the bound on calls: the slot after the
\* one the relay expects, at which the entries of the earliest timely slot are
\* out of tolerance and those of the latest are not
TicksOf(ctx) ==
    LET e == 32 + ctx.bellatrix_fork_epoch * ctx.slots_per_epoch
    IN  {e + 1}

BidRequests(ctx) ==
    [slot : SlotsOf(ctx), parent_hash : Hashes, public_key : PubKeys]

\* The fields of an execution payload the relay reads. Its variant is read only
\* through the header derived from it, so the variant is drawn where the header
\* is derived.
Payloads == [gas_limit : GasLimits, block_hash : Hashes]

NoRequest == [slot |-> 0, parent_hash |-> 0, public_key |-> 0]
NoPayload == [gas_limit |-> 0, block_hash |-> 0]
NoBlock == [slot |-> 0, parent_hash |-> 0, proposer_index |-> 0,
            block_hash |-> 0, valid_signature |-> FALSE]
NoPreferences == [gas_limit |-> 0]

\* the local variables of one call and its result
Idle == [op |-> "none", bid_request |-> NoRequest, preferences |-> NoPreferences,
         payload |-> NoPayload, header |-> "None", block |-> NoBlock, slot |-> 0,
         next_epoch |-> FALSE, loaded |-> "none", built |-> FALSE, result |-> "none"]

VARIABLES
    context,             \* Inner.context, immutable
    validators,          \* ValidatorRegistry: the public keys of the loaded validator set
    preferences,         \* ValidatorRegistry: public key -> registered gas limit, 0 if none
    execution_payloads,  \* State.execution_payloads, as a set of (bid_request, payload) entries
    lock,                \* Inner.state mutex: Free, or the task that holds it
    pc,                  \* each task's position in its operation
    local,               \* each task's local variables in the call it is in
    last,                \* the call that completed last: its locals and result
    status,              \* history: the lifecycle state of every bid request
    consumed,            \* history: the bid requests whose payload was ever removed
    calls,               \* history: the number of operations started
    outcome              \* the last call of an order helper: its arguments and result

vars == <<context, validators, preferences, execution_payloads, lock, pc, local,
          last, status, consumed, calls, outcome>>

\* no order helper has been called
NoOutcome == [op |-> "none"]

(* --------------------------- pure functions ---------------------------- *)


(* --------------------------- pure functions ---------------------------- *)

\* Slot and Epoch are u64. A slot or epoch is written as its number; the
\* numbers a u64 operation can produce are the results of + and * on numbers
\* below 2^64. U64High(n) is what n has above its 64 low bits (n divided by
\* 2^16 four times), U64Wrap(n) the 64 low bits of n.
U64High(n) == (((n \div 65536) \div 65536) \div 65536) \div 65536
U64Wrap(n) == n - (((U64High(n) * 65536) * 65536) * 65536) * 65536

\* the results of a u64 expression whose operations have the exact values in
\* steps and the value wrapped in a build without overflow checks: that value,
\* and a panic too if a step is beyond u64, which a build with overflow checks
\* answers with a panic
U64Results(steps, wrapped) ==
    IF \E n \in steps : U64High(n) # 0 THEN {"Panic", wrapped} ELSE {wrapped}

\* lines 55-59: the slot the relay expects for the fork, the exact values of
\* the product and of the sum on the wrapped product
current_slot(fork, ctx) ==
    LET epoch == IF fork = "Bellatrix" THEN ctx.bellatrix_fork_epoch
                 ELSE ctx.capella_fork_epoch
        product == epoch * ctx.slots_per_epoch
        sum == 32 + U64Wrap(product)
    IN  [steps |-> {product, sum}, wrapped |-> U64Wrap(sum)]

\* is_slot_timely with > for >=
is_slot_timely_strict(slot, fork, ctx) ==
    IF fork \notin {"Bellatrix", "Capella"} THEN {"Panic"}
    ELSE LET current == current_slot(fork, ctx)
             sum == slot + PROPOSAL_TOLERANCE_DELAY
         IN  U64Results(current.steps \cup {sum},
                        IF U64Wrap(sum) > current.wrapped THEN "true" ELSE "false")

\* lines 54-61, as the set of what the builds give: the boolean returned
\* ("true", "false"), or a panic: for a fork other than "Bellatrix" and
\* "Capella" the match arm is unimplemented!(), and where the product, the sum
\* of line 56 or 57 or the sum of line 60 is beyond u64 a build with overflow
\* checks panics and one without goes on with the wrapped value
is_slot_timely(slot, fork, ctx) ==
    IF fork \notin {"Bellatrix", "Capella"} THEN {"Panic"}
    ELSE LET current == current_slot(fork, ctx)
             sum == slot + PROPOSAL_TOLERANCE_DELAY
         IN  U64Results(current.steps \cup {sum},
                        IF U64Wrap(sum) >= current.wrapped THEN "true" ELSE "false")

is_parent_hash_on_chain_tip(parent_hash, ctx) ==
    parent_hash = ctx.terminal_block_hash

\* ValidatorRegistry::get_validator_index, as the set holding the index if any
get_validator_index(registry, public_key) ==
    IF public_key \in registry THEN {public_key} ELSE {}

is_valid_proposer(public_key, registry) ==
    get_validator_index(registry, public_key) # {}

\* validate_bid_request without the check of the parent hash
validate_bid_request_any_parent(bid_request, ctx, registry) ==
    {IF timely = "Panic" THEN "Panic"
     ELSE IF timely = "false" THEN "InvalidSlot"
     ELSE IF ~is_valid_proposer(bid_request.public_key, registry)
     THEN "ValidatorNotRegistered"
     ELSE "Ok" :
        timely \in is_slot_timely(bid_request.slot, "Bellatrix", ctx)}

\* validate_bid_request with the parent hash checked before the slot
validate_bid_request_reordered(bid_request, ctx, registry) ==
    {IF ~is_parent_hash_on_chain_tip(bid_request.parent_hash, ctx)
     THEN "InvalidParentHash"
     ELSE IF timely = "Panic" THEN "Panic"
     ELSE IF timely = "false" THEN "InvalidSlot"
     ELSE IF ~is_valid_proposer(bid_request.public_key, registry)
     THEN "ValidatorNotRegistered"
     ELSE "Ok" :
        timely \in is_slot_timely(bid_request.slot, "Bellatrix", ctx)}

\* lines 29-52, as the set of what the builds give: the fork is the literal
\* "Bellatrix" (line 35), and a panic of is_slot_timely unwinds through the
\* caller
validate_bid_request(bid_request, ctx, registry) ==
    {IF timely = "Panic" THEN "Panic"
     ELSE IF timely = "false" THEN "InvalidSlot"
     ELSE IF ~is_parent_hash_on_chain_tip(bid_request.parent_hash, ctx)
     THEN "InvalidParentHash"
     ELSE IF ~is_valid_proposer(bid_request.public_key, registry)
     THEN "ValidatorNotRegistered"
     ELSE "Ok" :
        timely \in is_slot_timely(bid_request.slot, "Bellatrix", ctx)}

\* validate_execution_payload with the preference as a cap
validate_execution_payload_capped(execution_payload, prefs) ==
    IF execution_payload.gas_limit > prefs.gas_limit
    THEN "InvalidGasLimit"
    ELSE "Ok"

validate_execution_payload(execution_payload, prefs) ==
    IF execution_payload.gas_limit # prefs.gas_limit
    THEN "InvalidGasLimit"
    ELSE "Ok"

\* validate_signed_block without the comparison of the block hashes
validate_signed_block_unchecked(signed_block, local_payload) ==
    IF signed_block.valid_signature THEN "Ok" ELSE "InvalidSignature"

validate_signed_block(signed_block, local_payload) ==
    IF signed_block.block_hash # local_payload.block_hash
    THEN "UnknownBlock"
    ELSE IF signed_block.valid_signature THEN "Ok" ELSE "InvalidSignature"

(* ------------------- the HashMap State.execution_payloads --------------- *)

Entry(k, v) == [bid_request |-> k, payload |-> v]

\* remove(&k).unwrap_or_default() for remove(&k)
HashMapRemoved_or_default(m, k) ==
    IF \E e \in m : e.bid_request = k
    THEN {e.payload : e \in {x \in m : x.bid_request = k}}
    ELSE {NoPayload}

\* the value remove(&k) returns: the payload stored under k, if any
HashMapRemoved(m, k) == {e.payload : e \in {x \in m : x.bid_request = k}}

\* an insert into a cleared map
HashMapInsert_clearing(m, k, v) == {Entry(k, v)}

\* an insert that keeps the entry already stored under k
HashMapInsert_keeping(m, k, v) == m \cup {Entry(k, v)}

\* the map after insert(k, v)
HashMapInsert(m, k, v) == {e \in m : e.bid_request # k} \cup {Entry(k, v)}

\* get(&k) for remove(&k): the entry stays
HashMapRemove_peek(m, k) == m

\* the map after remove(&k)
HashMapRemove(m, k) == {e \in m : e.bid_request # k}

\* line 181, the closure of retain on one key, as the set of what the builds
\* give: whether the entry is kept ("true", "false"), or a panic where the sum
\* is beyond u64 and the build checks overflow
retain_closure(bid_request, slot) ==
    LET sum == bid_request.slot + PROPOSAL_TOLERANCE_DELAY
    IN  U64Results({sum}, IF U64Wrap(sum) >= slot THEN "true" ELSE "false")

\* retain with a closure that holds of every entry
HashMapRetain_all(m, slot) ==
    {e \in m : e.bid_request.slot + PROPOSAL_TOLERANCE_DELAY >= e.bid_request.slot}

\* retain with > for >=
HashMapRetain_strict(m, slot) ==
    {e \in m : e.bid_request.slot + PROPOSAL_TOLERANCE_DELAY > slot}

\* lines 179-181: the map after retain(|bid_request, _| bid_request.slot +
\* PROPOSAL_TOLERANCE_DELAY >= slot) has returned: the entries the closure has
\* answered with true
HashMapRetain(m, slot) ==
    {e \in m : "true" \in retain_closure(e.bid_request, slot)}

\* lines 179-181: the maps retain can leave behind when its closure panics on
\* an entry: that entry and those not visited yet are in the map, of those
\* visited the ones answered with false are not
HashMapRetain_unwound(m, slot) ==
    IF \E e \in m : "Panic" \in retain_closure(e.bid_request, slot)
    THEN {m \ gone : gone \in SUBSET {e \in m : retain_closure(e.bid_request, slot) = {"false"}}}
    ELSE {}

\* open_bid's bid request: the block's slot and parent hash, the resolved key
BidRequestOf(signed_block, public_key) ==
    [slot |-> signed_block.slot, parent_hash |-> signed_block.parent_hash,
     public_key |-> public_key]


(* ------------------------------- Init ---------------------------------- *)

\* the first validator of the beacon node's list and the lowest gas limit
FirstKey == CHOOSE k \in PubKeys : \A j \in PubKeys : k <= j
FirstGasLimit == CHOOSE g \in GasLimits : \A x \in GasLimits : g <= x

\* Relay::new (lines 143-161) leaves an empty cache behind an unlocked mutex and
\* a registry that has loaded no validator and holds no preferences. The relay
\* starts to serve in that state, or in the one that initialize (169-171) and a
\* registration (187-198) have left of it since: the first validator loaded,
\* the lowest gas limit registered for it.
Init ==
    /\ context \in Contexts
    /\ \/ /\ validators = {}
          /\ preferences = [k \in PubKeys |-> 0]
       \/ /\ validators = {FirstKey}
          /\ preferences = [k \in PubKeys |-> IF k = FirstKey THEN FirstGasLimit ELSE 0]
    /\ execution_payloads = {}
    /\ lock = Free
    /\ pc = [p \in Procs |-> "idle"]
    /\ local = [p \in Procs |-> Idle]
    /\ last = Idle
    /\ status = [b \in BidRequests(context) |-> "NoBid"]
    /\ consumed = {}
    /\ calls = 0
    /\ outcome = NoOutcome

(* ---------------------- the validator registry ------------------------ *)

\* ValidatorRegistry::get_preferences, as the set holding the preferences if any
get_preferences(prefs, public_key) ==
    IF prefs[public_key] = 0 THEN {} ELSE {[gas_limit |-> prefs[public_key]]}

\* ValidatorRegistry::get_public_key, as the set holding the key if the index resolves
get_public_key(registry, index) ==
    IF index \in registry THEN {index} ELSE {}

\* ValidatorRegistry::load, as the set of its outcomes: the beacon node's
\* validator list, which only grows, replaces the loaded one, or the load fails
\* and the loaded set is kept
ValidatorRegistry_load(registry) ==
    {[result |-> "Ok", validators |-> 1..n] :
        n \in {i \in 0..Cardinality(PubKeys) : registry \subseteq 1..i}}
    \cup {[result |-> "Err", validators |-> registry]}

\* lines 163-167: the registry is loaded with outcome o; an error is logged
load_full_validator_set(o) ==
    /\ o \in ValidatorRegistry_load(validators)
    /\ validators' = o.validators

\* on_slot with the eviction inside the branch of next_epoch
on_slot_retained_at_boundary(m, slot, next_epoch) ==
    IF next_epoch THEN HashMapRetain(m, slot) ELSE m

\* lines 178-181: the entries on_slot(slot, next_epoch) leaves in the cache;
\* the outcome of the load it has awaited if next_epoch does not reach it
on_slot_retained(m, slot, next_epoch) == HashMapRetain(m, slot)

\* the signed blocks handed to open_bid: blocks on the chain tip for the slots
\* a cached bid request can have (the timely ones), by any proposer, with any
\* claimed block hash
SignedBlocks(ctx) ==
    [slot : {s \in SlotsOf(ctx) : is_slot_timely(s, "Bellatrix", ctx) = {"true"}},
     parent_hash : {ctx.terminal_block_hash},
     proposer_index : PubKeys, block_hash : Hashes, valid_signature : BOOLEAN]

(* ------------------- the history of each bid request -------------------- *)

\* NoBid -> Offered (a payload is inserted) -> Opened (open_bid removed it and
\* returned it), Lost (open_bid removed it and then rejected the block) or
\* Expired (on_slot removed it)
Inserted(b) ==
    /\ status' = [status EXCEPT ![b] = "Offered"]
    /\ consumed' = consumed

Taken(b, result) ==
    /\ status' = [status EXCEPT ![b] = IF result = "Ok" THEN "Opened" ELSE "Lost"]
    /\ consumed' = consumed \cup {b}

Evicted(before, after) ==
    LET gone == {b \in DOMAIN status : \E e \in before \ after : e.bid_request = b}
    IN  /\ status' = [b \in DOMAIN status |-> IF b \in gone THEN "Expired" ELSE status[b]]
        /\ consumed' = consumed \cup gone


(* ------------------------ register_validators -------------------------- *)

\* a signed registration: the key and gas limit of its message, and whether the
\* registry accepts it (signature, timestamp and status of the validator)
SignedValidatorRegistrations ==
    [public_key : PubKeys, gas_limit : GasLimits, valid : BOOLEAN]

\* the slices of registrations of one call, the empty one included
RegistrationLists ==
    UNION {[1..n -> SignedValidatorRegistrations] : n \in 0..MaxRegistrations}

\* ValidatorRegistry::validate_registrations on preferences prefs: the
\* registrations are taken in order, a valid one records the preferences of its
\* key, and the first invalid one ends the call with its error; those recorded
\* before it stay
RECURSIVE validate_registrations(_, _)
validate_registrations(prefs, registrations) ==
    IF registrations = <<>>
    THEN [result |-> "Ok", preferences |-> prefs]
    ELSE LET registration == Head(registrations)
         IN  IF ~registration.valid
             THEN [result |-> "InvalidRegistration", preferences |-> prefs]
             ELSE validate_registrations(
                     [prefs EXCEPT ![registration.public_key] = registration.gas_limit],
                     Tail(registrations))

(* ------- the operations as concurrent tasks, split where they take ------- *)
(* ------- the lock and where they call a collaborator               ------- *)

\* The handlers serve the calls of register_validators, fetch_best_bid and
\* open_bid, the clock calls initialize and on_slot. A step of a task is what it
\* does between two points at which another task can see or change what it
\* works on: the registry (read at lines 201-207 and 255, written by
\* validate_registrations and load), and the cache (under the lock). Lines 201
\* and 204-207 are one step: validate_bid_request reads the validator set and
\* not the preferences, get_preferences the preferences and not the validator
\* set, so a registration or a load between the two has the effect of one
\* before or after both.

\* a task starts a call when it is free and the bound on
\* calls is not reached
Begin(p) ==
    /\ pc[p] = "idle"
    /\ calls < MaxCalls
    /\ calls' = calls + 1

\* the task goes on to label with locals loc; no call returns in this step
Goto(p, label, loc) ==
    /\ pc' = [pc EXCEPT ![p] = label]
    /\ local' = [local EXCEPT ![p] = loc]
    /\ last' = Idle
    /\ UNCHANGED outcome

\* the call returns: its locals and result loc are what the caller has seen, and
\* the task is free again
Return(p, loc) ==
    /\ pc' = [pc EXCEPT ![p] = "idle"]
    /\ local' = [local EXCEPT ![p] = Idle]
    /\ last' = loc
    /\ UNCHANGED outcome

\* the call of task p returns res
Finish(p, res) == Return(p, [local[p] EXCEPT !.result = res])

\* lines 187-198: the slice goes to validate_registrations and its result is
\* returned
RegisterValidators(h) ==
    /\ Begin(h)
    /\ \E registrations \in RegistrationLists :
          LET done == validate_registrations(preferences, registrations)
          IN  /\ preferences' = done.preferences
              /\ Return(h, [Idle EXCEPT !.op = "register_validators",
                                        !.result = done.result])
    /\ UNCHANGED <<context, validators, execution_payloads, lock, status, consumed>>

\* lines 201-207: validate_bid_request and get_preferences
FetchValidate(h) ==
    /\ Begin(h)
    /\ \E bid_request \in BidRequests(context) :
          \E valid \in validate_bid_request(bid_request, context, validators) :
             LET loc == [Idle EXCEPT !.op = "fetch_best_bid",
                                     !.bid_request = bid_request]
                 prefs == get_preferences(preferences, bid_request.public_key)
             IN  IF valid # "Ok"
                 THEN Return(h, [loc EXCEPT !.result = valid])
                 ELSE IF prefs = {}
                 THEN Return(h, [loc EXCEPT !.result = "MissingPreferences"])
                 ELSE \E p \in prefs :
                         Goto(h, "fetch_build", [loc EXCEPT !.preferences = p])
    /\ UNCHANGED <<context, validators, preferences, execution_payloads, lock,
                   status, consumed>>

\* lines 208-213: the builder is asked for a payload, and returns one or fails
FetchBuild(h) ==
    /\ pc[h] = "fetch_build"
    /\ \/ Return(h, [local[h] EXCEPT !.built = TRUE, !.result = "BuilderError"])
       \/ \E payload \in Payloads :
             Goto(h, "fetch_lock", [local[h] EXCEPT !.payload = payload, !.built = TRUE])
    /\ UNCHANGED <<context, validators, preferences, execution_payloads, lock,
                   status, consumed, calls>>

\* line 216: self.state.lock()
FetchLock(h) ==
    /\ pc[h] = "fetch_lock"
    /\ lock = Free
    /\ lock' = h
    /\ Goto(h, "fetch_critical", local[h])
    /\ UNCHANGED <<context, validators, preferences, execution_payloads, status,
                   consumed, calls>>

\* lines 218-224: validation, header derivation and insertion under the lock;
\* the guard is dropped at the end of the block and on each early return
FetchCritical(h) ==
    /\ pc[h] = "fetch_critical"
    /\ lock = h
    /\ lock' = Free
    /\ LET checked == validate_execution_payload(local[h].payload, local[h].preferences)
       IN  IF checked # "Ok"
           THEN /\ Finish(h, checked)
                /\ UNCHANGED <<execution_payloads, status, consumed>>
           ELSE \/ /\ Finish(h, "HeaderError")
                   /\ UNCHANGED <<execution_payloads, status, consumed>>
                \/ /\ execution_payloads' =
                         HashMapInsert(execution_payloads, local[h].bid_request,
                                       local[h].payload)
                   /\ Inserted(local[h].bid_request)
                   /\ Goto(h, "fetch_sign", local[h])
    /\ UNCHANGED <<context, validators, preferences, calls>>

\* lines 226-244: the match on the header, which has the variant of the payload
\* it was derived from, and the signing of the bid for that fork
FetchSign(h) ==
    /\ pc[h] = "fetch_sign"
    /\ \E header \in Forks :
          LET loc == [local[h] EXCEPT !.header = header]
          IN  IF header = "Deneb"
              THEN Return(h, [loc EXCEPT !.result = "Panic"])
              ELSE \/ Return(h, [loc EXCEPT !.result = "Ok"])
                   \/ Return(h, [loc EXCEPT !.result = "SigningError"])
    /\ UNCHANGED <<context, validators, preferences, execution_payloads, lock,
                   status, consumed, calls>>

\* lines 251-256: resolve the proposer's key and build the bid request
OpenResolve(h) ==
    /\ Begin(h)
    /\ \E signed_block \in SignedBlocks(context) :
          LET loc == [Idle EXCEPT !.op = "open_bid", !.block = signed_block]
              key == get_public_key(validators, signed_block.proposer_index)
          IN  IF key = {}
              THEN Return(h, [loc EXCEPT !.result = "UnknownValidatorIndex"])
              ELSE \E public_key \in key :
                      Goto(h, "open_lock",
                           [loc EXCEPT !.bid_request =
                                          BidRequestOf(signed_block, public_key)])
    /\ UNCHANGED <<context, validators, preferences, execution_payloads, lock,
                   status, consumed>>

\* line 259: self.state.lock()
OpenLock(h) ==
    /\ pc[h] = "open_lock"
    /\ lock = Free
    /\ lock' = h
    /\ Goto(h, "open_remove", local[h])
    /\ UNCHANGED <<context, validators, preferences, execution_payloads, status,
                   consumed, calls>>

\* OpenRemove with the guard kept while the block is validated
OpenRemove_holding(h) ==
    /\ pc[h] = "open_remove"
    /\ lock = h
    /\ lock' = h
    /\ LET found == HashMapRemoved(execution_payloads, local[h].bid_request)
       IN  IF found = {}
           THEN /\ Finish(h, "UnknownBid")
                /\ UNCHANGED <<execution_payloads, status, consumed>>
           ELSE \E payload \in found :
                  /\ execution_payloads' =
                        HashMapRemove(execution_payloads, local[h].bid_request)
                  /\ Taken(local[h].bid_request,
                           validate_signed_block(local[h].block, payload))
                  /\ Goto(h, "open_validate", [local[h] EXCEPT !.payload = payload])
    /\ UNCHANGED <<context, validators, preferences, calls>>

\* line 260: remove(&bid_request).ok_or(UnknownBid)?, then the guard is dropped
OpenRemove(h) ==
    /\ pc[h] = "open_remove"
    /\ lock = h
    /\ lock' = Free
    /\ LET found == HashMapRemoved(execution_payloads, local[h].bid_request)
       IN  IF found = {}
           THEN /\ Finish(h, "UnknownBid")
                /\ UNCHANGED <<execution_payloads, status, consumed>>
           ELSE \E payload \in found :
                  /\ execution_payloads' =
                        HashMapRemove(execution_payloads, local[h].bid_request)
                  /\ Taken(local[h].bid_request,
                           validate_signed_block(local[h].block, payload))
                  /\ Goto(h, "open_validate", [local[h] EXCEPT !.payload = payload])
    /\ UNCHANGED <<context, validators, preferences, calls>>

\* lines 263-271: validate_signed_block, then the payload is returned
OpenValidate(h) ==
    /\ pc[h] = "open_validate"
    /\ Finish(h, validate_signed_block(local[h].block, local[h].payload))
    /\ UNCHANGED <<context, validators, preferences, execution_payloads, lock,
                   status, consumed, calls>>

\* lines 169-171
Initialize ==
    /\ Begin(Clock)
    /\ \E o \in ValidatorRegistry_load(validators) :
          /\ load_full_validator_set(o)
          /\ Return(Clock, [Idle EXCEPT !.op = "initialize", !.loaded = o.result])
    /\ UNCHANGED <<context, preferences, execution_payloads, lock, status, consumed>>

\* lines 173-177: on_slot(slot, next_epoch) is entered and loads the validator
\* set if next_epoch
OnSlotEnter(slot, next_epoch) ==
    /\ pc[Clock] = "idle"
    /\ IF next_epoch
       THEN \E o \in ValidatorRegistry_load(validators) :
               /\ load_full_validator_set(o)
               /\ Goto(Clock, "on_slot_lock",
                       [Idle EXCEPT !.op = "on_slot", !.slot = slot,
                                    !.next_epoch = TRUE, !.loaded = o.result])
       ELSE /\ validators' = validators
            /\ Goto(Clock, "on_slot_lock",
                    [Idle EXCEPT !.op = "on_slot", !.slot = slot])
    /\ UNCHANGED <<context, preferences, execution_payloads, lock, status, consumed>>

\* on_slot is called within the bound on calls, for a slot near the requests'
OnSlotLoad ==
    /\ calls < MaxCalls
    /\ calls' = calls + 1
    /\ \E slot \in TicksOf(context), next_epoch \in BOOLEAN :
          OnSlotEnter(slot, next_epoch)

\* line 178: self.state.lock()
OnSlotLock ==
    /\ pc[Clock] = "on_slot_lock"
    /\ lock = Free
    /\ lock' = Clock
    /\ Goto(Clock, "on_slot_retain", local[Clock])
    /\ UNCHANGED <<context, validators, preferences, execution_payloads, status,
                   consumed, calls>>

\* lines 179-182: retain, then the guard is dropped and on_slot returns; if the
\* closure panics the guard is dropped as the task unwinds
OnSlotRetain ==
    /\ pc[Clock] = "on_slot_retain"
    /\ lock = Clock
    /\ lock' = Free
    /\ \E unwinds \in {FALSE} \cup {TRUE : m \in HashMapRetain_unwound(
                                               execution_payloads, local[Clock].slot)} :
          IF unwinds
          THEN /\ execution_payloads' \in
                     HashMapRetain_unwound(execution_payloads, local[Clock].slot)
               /\ Finish(Clock, "Panic")
          ELSE /\ execution_payloads' =
                     on_slot_retained(execution_payloads, local[Clock].slot,
                                      local[Clock].next_epoch)
               /\ Finish(Clock, "Ok")
    /\ Evicted(execution_payloads, execution_payloads')
    /\ UNCHANGED <<context, validators, preferences, calls>>

Next ==
    \/ \E h \in Handlers : RegisterValidators(h)
    \/ \E h \in Handlers : FetchValidate(h)
    \/ \E h \in Handlers : FetchBuild(h)
    \/ \E h \in Handlers : FetchLock(h)
    \/ \E h \in Handlers : FetchCritical(h)
    \/ \E h \in Handlers : FetchSign(h)
    \/ \E h \in Handlers : OpenResolve(h)
    \/ \E h \in Handlers : OpenLock(h)
    \/ \E h \in Handlers : OpenRemove(h)
    \/ \E h \in Handlers : OpenValidate(h)
    \/ Initialize
    \/ OnSlotLoad
    \/ OnSlotLock
    \/ OnSlotRetain

Spec == Init /\ [][Next]_vars

(* ------------- the order helpers (mev-build-rs/src/greedy.rs) ----------- *)

\* A u128 is written in NumLimbs limbs below LimbBase = 2^16, the least
\* significant first: 8 * 16 = 128 bits.
NumLimbs == 8
LimbBase == 65536

U128Zero == [i \in 1..NumLimbs |-> 0]
\* u128::MAX
U128Max == [i \in 1..NumLimbs |-> LimbBase - 1]
\* the u128 of a number below LimbBase (as u128 of a small u64)
U128Of(n) == [i \in 1..NumLimbs |-> IF i = 1 THEN n ELSE 0]

\* a < b on limbs of equal length
LimbsLess(a, b) ==
    \E i \in DOMAIN a :
       /\ a[i] < b[i]
       /\ \A j \in DOMAIN a : j > i => a[j] = b[j]

\* a * p on limbs for a number p below 2^15: the product's limbs of a's length
\* and the carry out of the last limb
LimbsMul(a, p) ==
    LET n == Len(a)
        carry[i \in 0..n] == IF i = 0 THEN 0 ELSE (a[i] * p + carry[i - 1]) \div LimbBase
    IN  [value |-> [i \in 1..n |-> (a[i] * p + carry[i - 1]) % LimbBase],
         carry |-> carry[n]]

\* floor(a / d) on limbs for a number d in 1..2^15
LimbsDiv(a, d) ==
    LET n == Len(a)
        rem[i \in 1..(n + 1)] ==
            IF i = n + 1 THEN 0 ELSE (rem[i + 1] * LimbBase + a[i]) % d
    IN  [i \in 1..n |-> (rem[i + 1] * LimbBase + a[i]) \div d]

\* a - b on limbs of equal length, for a >= b
LimbsSub(a, b) ==
    LET n == Len(a)
        borrow[i \in 0..n] ==
            IF i = 0 THEN 0
            ELSE IF a[i] - b[i] - borrow[i - 1] < 0 THEN 1 ELSE 0
    IN  [i \in 1..n |-> a[i] - b[i] - borrow[i - 1] + borrow[i] * LimbBase]

\* the result of a helper: a u128, or the panic of the thread
Value(v) == [tag |-> "Ok", value |-> v]
Panic == [tag |-> "Panic", value |-> U128Zero]

\* a u128 multiplication: when the product exceeds u128::MAX the build decides,
\* a panic with overflow checks (the debug profile), the wrapped product
\* without them (the release profile)
U128Mul(a, p) ==
    LET m == LimbsMul(a, p)
    IN  IF m.carry = 0 THEN {Value(m.value)} ELSE {Panic, Value(m.value)}

\* the divisor of cut_off_price
PercentDivisor == 100

\* Transaction::max_priority_fee_per_gas of a transaction that has none (legacy)
NoFee == <<>>

\* effective_tip_per_gas(base_fee) of reth, as the set holding the tip if any:
\* none if max_fee_per_gas < base_fee, else the smaller of max_fee_per_gas -
\* base_fee and the priority fee, if the transaction has one
effective_tip_per_gas(tx, base_fee) ==
    IF LimbsLess(tx.max_fee_per_gas, U128Of(base_fee))
    THEN {}
    ELSE LET fee == LimbsSub(tx.max_fee_per_gas, U128Of(base_fee))
         IN  IF tx.max_priority_fee_per_gas = NoFee
             THEN {fee}
             ELSE IF LimbsLess(tx.max_priority_fee_per_gas, fee)
             THEN {tx.max_priority_fee_per_gas}
             ELSE {fee}

\* lines 19-21, 41-43: effective_tip_per_gas(..).unwrap()
profit(tx, base_fee, gas_used) ==
    LET tip == effective_tip_per_gas(tx, base_fee)
    IN  IF tip = {} THEN Panic ELSE Value(CHOOSE t \in tip : TRUE)

\* lines 27-29, 49-51: self.max_fee_per_gas() * cutt_off_percent / 100, as the
\* set of the results the builds give
cut_off_price(tx, cutt_off_percent) ==
    {IF m.tag = "Panic" THEN Panic ELSE Value(LimbsDiv(m.value, PercentDivisor)) :
        m \in U128Mul(tx.max_fee_per_gas, cutt_off_percent)}

\* lines 32-34, 54-56: self.max_fee_per_gas() >= min_price
is_order_in_price_range(tx, min_price) ==
    ~LimbsLess(tx.max_fee_per_gas, min_price)

\* The selection of orders for a block as the specification gives it
\* (section 4.2, CandidateSelector), on the helpers above: (1) the orders
\* outside the price range are filtered out, (2) the orders whose profit is
\* undefined for the base fee are discarded, (3) the rest is sorted by
\* descending profit and then by arrival, (4) each is admitted in that order
\* if its gas fits the rest of the budget and skipped otherwise. The value is
\* the sequence of the positions in the pool of the orders admitted.

\* the positions S of pool in descending order of profit pr, ties by position
RECURSIVE ByProfit(_, _)
ByProfit(S, pr) ==
    IF S = {} THEN <<>>
    ELSE LET best == CHOOSE i \in S :
                        \A j \in S \ {i} :
                           \/ LimbsLess(pr[j], pr[i])
                           \/ pr[j] = pr[i] /\ i < j
         IN  <<best>> \o ByProfit(S \ {best}, pr)

\* an admission that ends at the first order whose gas does not fit
RECURSIVE Admit_stopping(_, _, _)
Admit_stopping(order, pool, gas_left) ==
    IF order = <<>> THEN <<>>
    ELSE LET i == Head(order)
         IN  IF pool[i].gas_limit <= gas_left
             THEN <<i>> \o Admit_stopping(Tail(order), pool,
                                          gas_left - pool[i].gas_limit)
             ELSE <<>>

\* the positions of order, in order, whose gas fits what is left of the budget
RECURSIVE Admit(_, _, _)
Admit(order, pool, gas_left) ==
    IF order = <<>> THEN <<>>
    ELSE LET i == Head(order)
         IN  IF pool[i].gas_limit <= gas_left
             THEN <<i>> \o Admit(Tail(order), pool, gas_left - pool[i].gas_limit)
             ELSE Admit(Tail(order), pool, gas_left)

select_orders(pool, base_fee, min_price, gas_budget) ==
    LET in_range == {i \in DOMAIN pool : is_order_in_price_range(pool[i], min_price)}
        defined == {i \in in_range : effective_tip_per_gas(pool[i], base_fee) # {}}
        profits == [i \in defined |->
                      profit(pool[i], base_fee, pool[i].gas_limit).value]
    IN  Admit(ByProfit(defined, profits), pool, gas_budget)

\* the prices of the transactions the helpers are called on: small ones, the
\* largest whose hundredfold is a u128, the next multiple of 2^112 and u128::MAX
Prices ==
    {U128Of(n) : n \in {0, 1, 3, 5, 8, 99, 100, 101}}
    \cup {LimbsDiv(U128Max, PercentDivisor),
          [i \in 1..NumLimbs |-> IF i = NumLimbs THEN 656 ELSE 0],
          U128Max}

Transactions ==
    [max_fee_per_gas : Prices, max_priority_fee_per_gas : {NoFee, U128Of(4)},
     gas_limit : {10}]

\* the percentages cut_off_price is documented for
Percents == 0..PercentDivisor

BaseFees == {0, 2, 7}
MinPrices == {U128Of(n) : n \in {0, 5, 6}}

\* the transactions of the pools: legacy transactions of small prices
PoolTransactions ==
    [max_fee_per_gas : {U128Of(n) : n \in {1, 3, 5, 8}},
     max_priority_fee_per_gas : {NoFee}, gas_limit : {10, 20}]

RECURSIVE Pools(_)
Pools(n) ==
    IF n = 0 THEN {<<>>}
    ELSE LET shorter == Pools(n - 1)
         IN  shorter \cup {Append(p, tx) : p \in shorter, tx \in PoolTransactions}

PoolBaseFees == {0, 2}
PoolMinPrices == {U128Of(0), U128Of(4)}
GasBudgets == {20, 30}

relay_vars == <<context, validators, preferences, execution_payloads, lock, pc,
                local, last, status, consumed, calls>>

\* a relay as constructed, and no helper called
InitOrders ==
    /\ context \in Contexts
    /\ validators = {}
    /\ preferences = [k \in PubKeys |-> 0]
    /\ execution_payloads = {}
    /\ lock = Free
    /\ pc = [p \in Procs |-> "idle"]
    /\ local = [p \in Procs |-> Idle]
    /\ last = Idle
    /\ status = [b \in BidRequests(context) |-> "NoBid"]
    /\ consumed = {}
    /\ calls = 0
    /\ outcome = NoOutcome

\* The helpers keep no state: a behaviour is one call, of any helper on any of
\* its arguments.
Profit ==
    /\ outcome = NoOutcome
    /\ \E tx \in Transactions, base_fee \in BaseFees :
          outcome' = [op |-> "profit", tx |-> tx, base_fee |-> base_fee,
                      result |-> profit(tx, base_fee, tx.gas_limit)]
    /\ UNCHANGED relay_vars

CutOffPrice ==
    /\ outcome = NoOutcome
    /\ \E tx \in Transactions, percent \in Percents :
       \E result \in cut_off_price(tx, percent) :
          outcome' = [op |-> "cut_off_price", tx |-> tx, percent |-> percent,
                      result |-> result]
    /\ UNCHANGED relay_vars

IsOrderInPriceRange ==
    /\ outcome = NoOutcome
    /\ \E tx \in Transactions, min_price \in MinPrices :
          outcome' = [op |-> "is_order_in_price_range", tx |-> tx,
                      min_price |-> min_price,
                      result |-> is_order_in_price_range(tx, min_price)]
    /\ UNCHANGED relay_vars

SelectOrders ==
    /\ outcome = NoOutcome
    /\ \E pool \in Pools(MaxPool), base_fee \in PoolBaseFees,
          min_price \in PoolMinPrices, gas_budget \in GasBudgets :
          outcome' = [op |-> "select_orders", pool |-> pool, base_fee |-> base_fee,
                      min_price |-> min_price, gas_budget |-> gas_budget,
                      result |-> select_orders(pool, base_fee, min_price, gas_budget)]
    /\ UNCHANGED relay_vars

NextOrders ==
    \/ Profit
    \/ CutOffPrice
    \/ IsOrderInPriceRange
    \/ SelectOrders

SpecOrders == InitOrders /\ [][NextOrders]_vars

(* ------------- the relay under a slot clock that keeps ticking ---------- *)

TheContext == CHOOSE ctx \in Contexts : TRUE

\* a slot beyond the tolerance of every entry the cache can hold
LateSlot(ctx) ==
    (CHOOSE s \in SlotsOf(ctx) : \A t \in SlotsOf(ctx) : t <= s)
       + PROPOSAL_TOLERANCE_DELAY + 1

\* lines 173-177, called by the scheduler: slots pass, and the calls of on_slot
\* for the slots beyond those of the requests are not counted against the bound
\* on calls. The calls that load the validator set (next_epoch) are those of
\* OnSlotLoad, within the bound.
SlotTick ==
    /\ calls' = calls
    /\ OnSlotEnter(LateSlot(context), FALSE)

\* every step of every operation of the relay, and the scheduler's late ticks
NextLive ==
    \/ \E h \in Handlers : RegisterValidators(h)
    \/ \E h \in Handlers : FetchValidate(h)
    \/ \E h \in Handlers : FetchBuild(h)
    \/ \E h \in Handlers : FetchLock(h)
    \/ \E h \in Handlers : FetchCritical(h)
    \/ \E h \in Handlers : FetchSign(h)
    \/ \E h \in Handlers : OpenResolve(h)
    \/ \E h \in Handlers : OpenLock(h)
    \/ \E h \in Handlers : OpenRemove(h)
    \/ \E h \in Handlers : OpenValidate(h)
    \/ Initialize
    \/ OnSlotLoad
    \/ OnSlotLock
    \/ OnSlotRetain
    \/ SlotTick

\* The scheduler does not stop calling on_slot and slots pass, so whenever
\* on_slot has returned it is called again for a later slot; a task that can
\* take the lock does, and a task that holds it goes on to release it.
SpecLive ==
    /\ Init
    /\ [][NextLive]_vars
    /\ SF_vars(SlotTick)
    /\ WF_vars(OnSlotLock)
    /\ WF_vars(OnSlotRetain)
    /\ \A h \in Handlers : WF_vars(FetchCritical(h)) /\ WF_vars(OpenRemove(h))


(* ================================ claims ================================ *)

\* the payloads that map m holds for bid request b
CachedIn(m, b) == {e.payload : e \in {x \in m : x.bid_request = b}}

\* the payloads cached for bid request b
Cached(b) == CachedIn(execution_payloads, b)

\* the slot the relay expects for the fork it serves
ExpectedSlot == 32 + context.bellatrix_fork_epoch * context.slots_per_epoch

\* the step in which a call of the operation returns, with last' what it returns
FetchStep == last'.op = "fetch_best_bid"
OpenStep == last'.op = "open_bid"

\* the step of a call that returns without a step of its task before it
Immediate == pc' = pc

\* the steps of a task h at its positions
Removes(h) == pc[h] = "open_remove" /\ pc'[h] # pc[h]
Verifies(h) == pc[h] = "open_validate" /\ pc'[h] = "idle"
Validates(h) == pc[h] = "idle" /\ pc'[h] = "fetch_build"
Inserts(h) == pc[h] = "fetch_critical" /\ pc'[h] = "fetch_sign"
Retains == pc[Clock] = "on_slot_retain" /\ pc'[Clock] = "idle"
Enters == pc[Clock] = "idle" /\ pc'[Clock] = "on_slot_lock"

\* C1: the remove of an open_bid for a bid request whose payload is cached takes
\* that payload, and the call returns it if its block claims the payload's block
\* hash and is validly signed; whatever open_bid returns is the payload it took
\* and has the block hash the block claims; and the remove of an open_bid for a
\* bid request that was opened and not offered since fails with UnknownBid.
C1_OpenReturnsCachedOnce ==
    [][\A h \in Handlers :
          /\ Removes(h) =>
                LET b == local[h].bid_request IN
                /\ \A p \in Cached(b) :
                      pc'[h] = "open_validate" /\ local'[h].payload = p
                /\ status[b] = "Opened" => OpenStep /\ last'.result = "UnknownBid"
          /\ Verifies(h) =>
                /\ OpenStep
                /\ last'.payload = local[h].payload
                /\ last'.block = local[h].block
                /\ (/\ last'.block.valid_signature
                    /\ last'.block.block_hash = last'.payload.block_hash)
                      => last'.result = "Ok"
                /\ last'.result = "Ok" =>
                      last'.payload.block_hash = last'.block.block_hash
          /\ (OpenStep /\ last'.result = "Ok") => \E g \in Handlers : Verifies(g)
      ]_vars

\* a second open_bid for an opened bid request has failed with UnknownBid
C1_Witness ==
    /\ last.op = "open_bid"
    /\ last.result = "UnknownBid"
    /\ last.block.valid_signature
    /\ status[last.bid_request] = "Opened"

\* C2: the cache never holds two payloads for one bid request; the insertion of
\* fetch_best_bid leaves exactly the inserting call's payload under its bid
\* request, whatever was there before, and leaves every other entry as it was.
C2_OneEntryLastWriterWins ==
    [][/\ \A b \in DOMAIN status : Cardinality(CachedIn(execution_payloads', b)) <= 1
       /\ \A h \in Handlers :
             Inserts(h) =>
                /\ CachedIn(execution_payloads', local[h].bid_request) = {local[h].payload}
                /\ \A e \in execution_payloads :
                      e.bid_request # local[h].bid_request => e \in execution_payloads'
      ]_vars

\* two concurrent calls have inserted different payloads for one bid request,
\* neither has signed its bid yet, and the cache holds one of the payloads
C2_Witness ==
    \E h1, h2 \in Handlers :
       /\ h1 # h2
       /\ pc[h1] = "fetch_sign"
       /\ pc[h2] = "fetch_sign"
       /\ local[h1].bid_request = local[h2].bid_request
       /\ local[h1].payload # local[h2].payload
       /\ Cached(local[h1].bid_request) = {local[h2].payload}

\* C3 as stated: a bid request whose payload was removed by open_bid or by
\* eviction never has a payload in the cache again.
C3_ConsumedStaysOut ==
    [][\A b \in DOMAIN status :
          status[b] \in {"Opened", "Lost", "Expired"} => Cached(b)' = {}]_vars

\* C3 amended: a bid request whose payload was removed by open_bid or by
\* eviction has no payload in the cache until a fetch_best_bid for that very bid
\* request, which has passed its checks, inserts its payload; no other
\* operation puts a payload back.
C3_ConsumedUntilFetchedAgain ==
    [][\A b \in DOMAIN status :
          status[b] \in {"Opened", "Lost", "Expired"} =>
             /\ Cached(b) = {}
             /\ Cached(b)' # {} =>
                   \E h \in Handlers :
                      /\ Inserts(h)
                      /\ local[h].op = "fetch_best_bid"
                      /\ local[h].bid_request = b
                      /\ validate_execution_payload(local[h].payload,
                                                    local[h].preferences) = "Ok"
                      /\ Cached(b)' = {local[h].payload}
                      /\ status'[b] = "Offered"
      ]_vars

\* a bid request that was consumed is offered again by a successful fetch_best_bid
C3_Witness ==
    /\ last.op = "fetch_best_bid"
    /\ last.result = "Ok"
    /\ last.bid_request \in consumed
    /\ Cached(last.bid_request) = {last.payload}

\* C4 as stated: a fetch_best_bid that returns a failure has left the cache as
\* it was: no step of the call has changed the cache, so the call does not
\* return a failure from the position after its insert.
C4_FailedFetchKeepsCache ==
    [][\A h \in Handlers :
          (/\ pc[h] # "idle"
           /\ pc'[h] = "idle"
           /\ FetchStep
           /\ last'.result \notin {"Ok", "Panic"})
             => pc[h] # "fetch_sign"
      ]_vars

\* C5: a fetch_best_bid whose slot + tolerance is below the expected slot fails
\* with InvalidSlot in the step it is called in, without a builder call and
\* without a change of the cache; any other request, the boundary included,
\* does not fail with InvalidSlot.
C5_UntimelyRejectedFirst ==
    [][FetchStep =>
          IF last'.bid_request.slot + PROPOSAL_TOLERANCE_DELAY < ExpectedSlot
          THEN /\ last'.result = "InvalidSlot"
               /\ Immediate
               /\ ~last'.built
               /\ execution_payloads' = execution_payloads
          ELSE last'.result # "InvalidSlot"
      ]_vars

\* a request for the boundary slot passed and one for an earlier slot was rejected
C5_Witness ==
    /\ last.op = "fetch_best_bid"
    /\ last.bid_request.slot + PROPOSAL_TOLERANCE_DELAY < ExpectedSlot
    /\ last.result = "InvalidSlot"
    /\ \E b \in DOMAIN status :
          /\ b.slot + PROPOSAL_TOLERANCE_DELAY = ExpectedSlot
          /\ status[b] = "Offered"

\* C6: the retain of on_slot(slot) removes exactly the entries whose slot +
\* tolerance is below slot and keeps every other entry, the boundary slot +
\* tolerance = slot included; of entries at slots 10, 11 and 12, on_slot(13)
\* leaves the one at 12.
C6_EvictsExactlyTheOld ==
    [][Retains =>
          /\ execution_payloads' \subseteq execution_payloads
          /\ \A e \in execution_payloads :
                IF e.bid_request.slot + PROPOSAL_TOLERANCE_DELAY < local[Clock].slot
                THEN e \notin execution_payloads'
                ELSE e \in execution_payloads'
          /\ LET at(n) == Entry([slot |-> n, parent_hash |-> 1, public_key |-> 1],
                                [gas_limit |-> 1, block_hash |-> 1])
             IN  HashMapRetain({at(10), at(11), at(12)}, 13) = {at(12)}
      ]_vars

\* on_slot has evicted an entry and kept the entry at the boundary
C6_Witness ==
    /\ last.op = "on_slot"
    /\ \E b \in DOMAIN status :
          /\ status[b] = "Expired"
          /\ b.slot + PROPOSAL_TOLERANCE_DELAY < last.slot
    /\ \E e \in execution_payloads :
          e.bid_request.slot + PROPOSAL_TOLERANCE_DELAY = last.slot

\* C7: the remove of an open_bid for a bid request whose payload was evicted by
\* on_slot (and that was not offered since) finds no payload, and the call fails
\* with UnknownBid and returns none.
C7_ExpiredNeverOpened ==
    [][\A h \in Handlers :
          (Removes(h) /\ status[local[h].bid_request] = "Expired") =>
              /\ Cached(local[h].bid_request) = {}
              /\ pc'[h] = "idle"
              /\ OpenStep
              /\ last'.result = "UnknownBid"
              /\ last'.payload = NoPayload
      ]_vars

\* a validly signed block for an evicted bid request was answered with UnknownBid
C7_Witness ==
    /\ last.op = "open_bid"
    /\ last.result = "UnknownBid"
    /\ last.block.valid_signature
    /\ status[last.bid_request] = "Expired"

\* C8: the remove of open_bid leaves no payload under its bid request before
\* the block is verified; an open_bid that fails in the verification
\* (UnknownBlock or an invalid signature) had removed a payload and leaves the
\* cache as it is; and while a bid request whose payload was lost this way is
\* not offered again it has no payload, and an open_bid for it fails with
\* UnknownBid.
C8_FailedOpenLosesPayload ==
    [][\A h \in Handlers :
          /\ Removes(h) =>
                /\ CachedIn(execution_payloads', local[h].bid_request) = {}
                /\ status[local[h].bid_request] = "Lost" =>
                      /\ Cached(local[h].bid_request) = {}
                      /\ OpenStep
                      /\ last'.result = "UnknownBid"
          /\ (Verifies(h) /\ last'.result \in {"UnknownBlock", "InvalidSignature"}) =>
                /\ local[h].payload # NoPayload
                /\ execution_payloads' = execution_payloads
      ]_vars

\* after a failed verification a validly signed block was answered with UnknownBid
C8_Witness ==
    /\ last.op = "open_bid"
    /\ last.result = "UnknownBid"
    /\ last.block.valid_signature
    /\ status[last.bid_request] = "Lost"

\* the first of the checks 1 to 4 of fetch_best_bid that request r fails
FirstFailed(r) ==
    IF r.slot + PROPOSAL_TOLERANCE_DELAY < ExpectedSlot THEN "InvalidSlot"
    ELSE IF r.parent_hash # context.terminal_block_hash THEN "InvalidParentHash"
    ELSE IF r.public_key \notin validators THEN "ValidatorNotRegistered"
    ELSE IF preferences[r.public_key] = 0 THEN "MissingPreferences"
    ELSE "none"

\* C9: fetch_best_bid reports the first failing check in the order timeliness,
\* parent hash, registered validator, preferences, builder, gas limit: a call
\* that fails one of the first four returns that failure in the step it is
\* called in, the builder not called; a call that passes them goes on to the
\* builder, and then fails with BuilderError exactly if it got no payload and
\* with InvalidGasLimit exactly if the payload's gas limit is not that of the
\* preferences it read.
C9_ChecksInOrder ==
    [][/\ (FetchStep /\ Immediate) =>
             /\ FirstFailed(last'.bid_request) # "none"
             /\ last'.result = FirstFailed(last'.bid_request)
             /\ ~last'.built
       /\ \A h \in Handlers :
             Validates(h) =>
                /\ FirstFailed(local'[h].bid_request) = "none"
                /\ ~local'[h].built
       /\ (FetchStep /\ ~Immediate) =>
             /\ last'.built
             /\ last'.result \in {"BuilderError", "InvalidGasLimit", "HeaderError",
                                  "SigningError", "Panic", "Ok"}
             /\ last'.result = "BuilderError" <=> last'.payload = NoPayload
             /\ last'.result = "InvalidGasLimit" <=>
                   /\ last'.payload # NoPayload
                   /\ last'.payload.gas_limit # last'.preferences.gas_limit
      ]_vars

\* a request with a wrong parent hash and an unregistered key got InvalidParentHash
C9_Witness ==
    /\ last.op = "fetch_best_bid"
    /\ last.result = "InvalidParentHash"
    /\ last.bid_request.public_key \notin validators

\* C10: fetch_best_bid reads the proposer's preferences from the registry,
\* inserts a payload only if the payload's gas limit equals the gas limit of
\* those preferences, and returns a bid only then; a payload with any other gas
\* limit fails with InvalidGasLimit and is not cached; so every payload that
\* enters the cache has the gas limit of the preferences its call has read.
C10_GasLimitExact ==
    [][/\ \A h \in Handlers :
             /\ Validates(h) =>
                   local'[h].preferences.gas_limit =
                      preferences[local'[h].bid_request.public_key]
             /\ (pc[h] = "fetch_critical" /\ pc'[h] # pc[h]) =>
                   IF local[h].payload.gas_limit = local[h].preferences.gas_limit
                   THEN ~(FetchStep /\ last'.result = "InvalidGasLimit")
                   ELSE /\ FetchStep
                        /\ last'.result = "InvalidGasLimit"
                        /\ execution_payloads' = execution_payloads
       /\ \A e \in execution_payloads' \ execution_payloads :
             \E h \in Handlers :
                /\ Inserts(h)
                /\ e = Entry(local[h].bid_request, local[h].payload)
                /\ e.payload.gas_limit = local[h].preferences.gas_limit
       /\ (FetchStep /\ last'.result = "Ok") =>
             last'.payload.gas_limit = last'.preferences.gas_limit
      ]_vars

\* a payload with a gas limit below the preferred one was rejected
C10_Witness ==
    /\ last.op = "fetch_best_bid"
    /\ last.result = "InvalidGasLimit"
    /\ last.payload.gas_limit < last.preferences.gas_limit

\* C11: the retain of every on_slot(slot, next_epoch) leaves exactly the entries
\* within tolerance of slot, whatever next_epoch and the outcome of the load; an
\* on_slot that is entered goes on to its retain; the validator set changes only
\* in initialize or in an on_slot with next_epoch set, when the load succeeds;
\* when the load fails the validator set is the one before the call.
C11_EvictsAlwaysRefreshesAtBoundary ==
    [][/\ Retains =>
             execution_payloads' =
                {e \in execution_payloads :
                    e.bid_request.slot + PROPOSAL_TOLERANCE_DELAY >= local[Clock].slot}
       /\ pc[Clock] = "on_slot_lock" => pc'[Clock] \in {"on_slot_lock", "on_slot_retain"}
       /\ Enters =>
             /\ ~local'[Clock].next_epoch =>
                   validators' = validators /\ local'[Clock].loaded = "none"
             /\ local'[Clock].next_epoch => local'[Clock].loaded \in {"Ok", "Err"}
             /\ local'[Clock].loaded = "Err" => validators' = validators
       /\ validators' # validators =>
             \/ last'.op = "initialize" /\ last'.loaded = "Ok"
             \/ Enters /\ local'[Clock].next_epoch /\ local'[Clock].loaded = "Ok"
      ]_vars

\* an on_slot at an epoch boundary whose load failed has evicted an entry and
\* the registry still serves the validators it had
C11_Witness ==
    /\ last.op = "on_slot"
    /\ last.next_epoch
    /\ last.loaded = "Err"
    /\ validators # {}
    /\ \E b \in DOMAIN status :
          /\ status[b] = "Expired"
          /\ b.slot + PROPOSAL_TOLERANCE_DELAY < last.slot

\* the limbs of a with one more, most significant, limb 0
Widened(a) == Append(a, 0)

\* C12 as stated: for every max_fee_per_gas of a u128 and every percent in
\* 0..100, cut_off_price returns floor(max_fee_per_gas * percent / 100), the
\* product taken without overflow; the result at a smaller percent is never
\* larger; and at 100 percent it is max_fee_per_gas.
C12_CutOffPriceExact ==
    outcome.op = "cut_off_price" =>
       LET fee == outcome.tx.max_fee_per_gas
           exact(p) == LimbsDiv(LimbsMul(Widened(fee), p).value, PercentDivisor)
       IN  /\ outcome.result.tag = "Ok"
           /\ Widened(outcome.result.value) = exact(outcome.percent)
           /\ \A q \in Percents :
                 q <= outcome.percent =>
                    \A r \in cut_off_price(outcome.tx, q) :
                       /\ r.tag = "Ok"
                       /\ ~LimbsLess(outcome.result.value, r.value)
           /\ outcome.percent = PercentDivisor => outcome.result.value = fee

\* C13 as stated: profit on a transaction whose tip is undefined for the base
\* fee (max_fee_per_gas below the base fee) yields an error the caller can
\* handle; profit never panics.
C13_ProfitUndefinedIsAnError ==
    outcome.op = "profit" =>
       /\ LimbsLess(outcome.tx.max_fee_per_gas, U128Of(outcome.base_fee))
             => outcome.result.tag = "Err"
       /\ outcome.result.tag # "Panic"

\* the gas of the transactions of pool at the positions S
RECURSIVE GasOf(_, _)
GasOf(pool, S) ==
    IF S = {} THEN 0
    ELSE LET i == CHOOSE x \in S : TRUE
         IN  pool[i].gas_limit + GasOf(pool, S \ {i})

\* C14: for every pool, base fee, minimum price and gas budget the selection
\* returns transactions that are eligible (max_fee_per_gas >= the minimum
\* price, profit defined), in descending order of profit with ties in arrival
\* order, of a total gas within the budget, where an eligible transaction is
\* admitted exactly if its gas fits what the transactions admitted before it
\* in that order leave of the budget; and for profits 5, 3, 8, gas 10 each and
\* a budget of 20 it returns the third and then the first.
C14_SelectsGreedilyByProfit ==
    outcome.op = "select_orders" =>
       LET pool == outcome.pool
           out == outcome.result
           admitted == {out[k] : k \in DOMAIN out}
           eligible == {i \in DOMAIN pool :
                          /\ ~LimbsLess(pool[i].max_fee_per_gas, outcome.min_price)
                          /\ effective_tip_per_gas(pool[i], outcome.base_fee) # {}}
           tip(i) == CHOOSE t \in effective_tip_per_gas(pool[i], outcome.base_fee) : TRUE
           before(i, j) == \/ LimbsLess(tip(j), tip(i))
                           \/ tip(i) = tip(j) /\ i < j
           legacy(fee) == [max_fee_per_gas |-> U128Of(fee),
                           max_priority_fee_per_gas |-> NoFee, gas_limit |-> 10]
       IN  /\ admitted \subseteq eligible
           /\ \A k, l \in DOMAIN out : k < l => before(out[k], out[l])
           /\ GasOf(pool, admitted) <= outcome.gas_budget
           /\ \A i \in eligible :
                 i \in admitted <=>
                    GasOf(pool, {j \in admitted : before(j, i)}) + pool[i].gas_limit
                       <= outcome.gas_budget
           /\ (/\ pool = <<legacy(5), legacy(3), legacy(8)>>
               /\ outcome.base_fee = 0
               /\ outcome.min_price = U128Zero
               /\ outcome.gas_budget = 20) => out = <<3, 1>>

\* a selection of two transactions, out of their arrival order, that skipped
\* an eligible transaction of a profit between theirs whose gas did not fit
\* and admitted the one of a smaller profit and less gas after it
C14_Witness ==
    /\ outcome.op = "select_orders"
    /\ LET pool == outcome.pool
           out == outcome.result
           admitted == {out[k] : k \in DOMAIN out}
           eligible == {i \in DOMAIN pool :
                          /\ ~LimbsLess(pool[i].max_fee_per_gas, outcome.min_price)
                          /\ effective_tip_per_gas(pool[i], outcome.base_fee) # {}}
           tip(i) == CHOOSE t \in effective_tip_per_gas(pool[i], outcome.base_fee) : TRUE
       IN  /\ Len(out) = 2
           /\ \E i \in eligible \ admitted :
                 /\ LimbsLess(tip(i), tip(out[1]))
                 /\ LimbsLess(tip(out[2]), tip(i))
                 /\ pool[i].gas_limit > pool[out[2]].gas_limit
           /\ out[1] > out[2]

\* C15 as stated: from the insertion of its payload until its bid is signed a
\* fetch_best_bid holds the lock of the cache, and in between no other task
\* takes the lock or changes the cache.
C15_SignedInsideTheCriticalSection ==
    [][\A h \in Handlers :
          pc[h] = "fetch_sign" =>
             /\ lock = h
             /\ pc'[h] = "fetch_sign" =>
                   /\ lock' = lock
                   /\ execution_payloads' = execution_payloads
      ]_vars

\* the positions at which a task holds the lock
Critical == {"fetch_critical", "open_remove", "on_slot_retain"}

\* the steps in which the clock's task loads the validator set: one that
\* changes the set, and the start of an on_slot at an epoch boundary
ClockLoads ==
    \/ validators' # validators
    \/ Enters /\ local'[Clock].next_epoch

\* C16: the cache changes only in a step of the task that holds the lock; a
\* task holds the lock only between taking it and its insert, remove or retain;
\* and the builder's construction of the payload, the verification of the block
\* and the load of the validator set are steps of a task that does not hold it.
C16_MutationsLockedNoIOUnderLock ==
    [][/\ execution_payloads' # execution_payloads =>
             \E p \in Procs :
                /\ lock = p
                /\ pc[p] \in Critical
                /\ pc'[p] # pc[p]
       /\ \A p \in Procs : lock = p <=> pc[p] \in Critical
       /\ \A h \in Handlers :
             (pc[h] \in {"fetch_build", "open_validate"} /\ pc'[h] # pc[h])
                => lock # h /\ lock' # h
       /\ ClockLoads => pc[Clock] = "idle" /\ lock # Clock /\ lock' # Clock
      ]_vars

\* while one handler holds the lock for its insert, another waits for its
\* payload from the builder and the clock has loaded the validator set
C16_Witness ==
    \E h1, h2 \in Handlers :
       /\ pc[h1] = "fetch_critical"
       /\ lock = h1
       /\ pc[h2] = "fetch_build"
       /\ pc[Clock] = "on_slot_lock"
       /\ local[Clock].next_epoch

\* C17: the remove of open_bid takes the payload out of the cache in the step
\* that reads it: a caller gets the payload cached for its bid request and
\* leaves none, a caller that finds none fails with UnknownBid, and the cache
\* holds a payload for a bid request exactly while it is offered, so that no
\* payload is handed to two callers.
C17_RemoveIsAnAtomicTake ==
    [][/\ \A b \in DOMAIN status : Cached(b) # {} <=> status[b] = "Offered"
       /\ \A h \in Handlers :
             Removes(h) =>
                LET b == local[h].bid_request IN
                IF Cached(b) = {}
                THEN /\ pc'[h] = "idle"
                     /\ OpenStep
                     /\ last'.result = "UnknownBid"
                     /\ last'.payload = NoPayload
                     /\ execution_payloads' = execution_payloads
                ELSE /\ pc'[h] = "open_validate"
                     /\ Cached(b) = {local'[h].payload}
                     /\ CachedIn(execution_payloads', b) = {}
                     /\ status[b] = "Offered"
                     /\ status'[b] \in {"Opened", "Lost"}
      ]_vars

\* of two concurrent open_bid calls for one bid request, one has taken the
\* payload and has not returned yet, the other has failed with UnknownBid
C17_Witness ==
    \E h1 \in Handlers :
       /\ pc[h1] = "open_validate"
       /\ local[h1].payload # NoPayload
       /\ last.op = "open_bid"
       /\ last.bid_request = local[h1].bid_request
       /\ last.result = "UnknownBid"

\* C18: every step of a fetch_best_bid or open_bid leaves the payloads cached
\* for every bid request other than its own as they were, whatever the call
\* returns, and a register_validators leaves the cache as it was.
C18_OtherEntriesUntouched ==
    [][/\ \A h \in Handlers :
             pc'[h] # pc[h] =>
                LET own == IF pc[h] = "idle" THEN local'[h].bid_request
                           ELSE local[h].bid_request
                IN  \A b \in DOMAIN status :
                       b # own => CachedIn(execution_payloads', b) = Cached(b)
       /\ (Immediate /\ last'.op \in {"fetch_best_bid", "open_bid",
                                      "register_validators"}) =>
             execution_payloads' = execution_payloads
      ]_vars

\* an open_bid has returned the payload of its bid request while the cache
\* holds a payload for another one
C18_Witness ==
    /\ last.op = "open_bid"
    /\ last.result = "Ok"
    /\ \E e \in execution_payloads : e.bid_request # last.bid_request

\* C19: with a scheduler that keeps calling on_slot as slots pass, no bid
\* request stays offered, its payload in the cache, for ever: at every time
\* there is a later time at which it is not offered and the cache holds no
\* payload for it, and then, if it was offered, open_bid or on_slot has
\* removed the payload.
C19_OfferedEventuallyLeaves ==
    \A b \in BidRequests(TheContext) :
       []<>(/\ status[b] # "Offered"
            /\ Cached(b) = {}
            /\ b \in consumed <=> status[b] \in {"Opened", "Lost", "Expired"})

\* the scheduler's on_slot for a late slot has evicted an entry of the newest slot
C19_Witness ==
    /\ last.op = "on_slot"
    /\ last.slot = LateSlot(context)
    /\ \E b \in DOMAIN status :
          /\ status[b] = "Expired"
          /\ b.slot + PROPOSAL_TOLERANCE_DELAY + 1 = last.slot

\* C20: every bid request that has a payload in the cache has the parent hash
\* of the chain tip of the context and a slot within tolerance of the slot the
\* relay expects (slot + tolerance >= expected slot).
C20_CachedPassedValidation ==
    \A e \in execution_payloads :
       /\ e.bid_request.parent_hash = context.terminal_block_hash
       /\ e.bid_request.slot + PROPOSAL_TOLERANCE_DELAY >= ExpectedSlot

\* requests off the chain tip and before the tolerance were made for a
\* registered proposer, and the cache holds a payload for that proposer
C20_Witness ==
    /\ last.op = "fetch_best_bid"
    /\ last.result = "InvalidParentHash"
    /\ last.bid_request.public_key \in validators
    /\ preferences[last.bid_request.public_key] # 0
    /\ \E e \in execution_payloads :
          /\ e.bid_request.public_key = last.bid_request.public_key
          /\ e.bid_request.slot = last.bid_request.slot

====
